---- MODULE Spec2Model ----
(***************************************************************************)
(* Model of the finance data layer (src/src/contexts/FinanceContext.tsx).  *)
(*                                                                         *)
(* The provider is a React function component.  Every render creates new   *)
(* closures for its handlers, so a running handler reads the               *)
(* `transactions`, `budgets`, `isAuthenticated` and `user` of the render   *)
(* in which it was invoked (fields snapTx, snapBud of an operation), while *)
(* a functional state update `setX(prev => ...)` reads the current state.  *)
(*                                                                         *)
(* A remote call is in one of three phases: "sent" (request in flight),    *)
(* "ok" / "err" (the store has processed it, the response is in flight).   *)
(* Server steps act on the remote tables, Deliver steps run the handler's  *)
(* continuation up to its next await.  Where the continuation of a         *)
(* successful response only issues the next request (the selects of        *)
(* refreshData, the loop of recalculateBudgets) the next request is put    *)
(* in flight by the server step itself: that continuation touches no       *)
(* client state.                                                           *)
(***************************************************************************)
EXTENDS Integers, Sequences, FiniteSets, TLC

\* ------------------------------------------------------------------ bounds
MaxOps == 2        \* handler invocations by the user interface per run
MaxInFlight == 2   \* handlers that have been invoked and have not yet returned
MaxLiveOps == 1    \* handler invocations per run of the fair specification
MaxLedger == 3     \* transactions of a ledger handed to calculateSpentAmount
MaxCalls == 2      \* calls of calculateSpentAmount per run

\* ------------------------------------------------------------------ inputs
Food == "Food"
Rent == "Rent"

\* transactions submitted through the transaction form (amount > 0)
TxInputs ==
  { [amount |-> 30, category |-> Food, date |-> 3, type |-> "expense"],
    [amount |-> 10, category |-> Food, date |-> 1, type |-> "income"] }

\* partial field sets passed to updateTransaction
TxUpdates ==
  { [amount |-> 10, category |-> Rent],
    [amount |-> 20] }

\* budgets submitted through the budget form
BudgetInputs ==
  { [category |-> Food, limit |-> 200, period |-> "monthly"],
    [category |-> Rent, limit |-> 100, period |-> "monthly"] }

\* field sets the budget form passes to updateBudget
BudgetUpdates ==
  { [category |-> Rent, limit |-> 300, period |-> "monthly"] }

\* categories created from the forms, and fields passed to updateCategory
CategoryInputs ==
  { [name |-> Rent, type |-> "expense", color |-> "#8B5CF6"],
    [name |-> "food", type |-> "expense", color |-> "#10B981"] }
CategoryUpdates ==
  { [name |-> "food"] }

\* rows present in the remote store before the session starts
SeedTx ==
  << [id |-> 1, amount |-> 50, category |-> Food, date |-> 2, type |-> "expense"] >>
SeedBudgets ==
  << [id |-> 2, category |-> Food, limit |-> 200, spent |-> 50, period |-> "monthly"] >>
SeedCategories ==
  << [id |-> 3, name |-> Food, type |-> "expense", color |-> "#F97316"] >>
Seeds ==
  { [tx |-> SeedTx, bud |-> SeedBudgets, cat |-> SeedCategories] }

\* ----------------------------------------------------------------- helpers
MapIdx(s, F(_)) == [i \in 1..Len(s) |-> F(s[i])]

\* .reduce((total, t) => total + t.amount, 0) over amounts that are integers:
\* every sum of the model is an integer below 2^53, where the addition of
\* two Numbers is exact
RECURSIVE SumAmounts(_)
SumAmounts(s) ==
  IF s = << >> THEN 0
  ELSE SumAmounts(SubSeq(s, 1, Len(s) - 1)) + s[Len(s)].amount

\* .filter(t => t.category === category && t.type === 'expense')
MatchingExpenses(txs, category) ==
  LET Match(tr) == tr.category = category /\ tr.type = "expense"
  IN  SelectSeq(txs, Match)

calculateSpentAmountNet(txs, category) ==
  LET Income(tr) == tr.category = category /\ tr.type = "income"
  IN  SumAmounts(MatchingExpenses(txs, category)) - SumAmounts(SelectSeq(txs, Income))

\* calculateSpentAmount over the transactions a closure sees
calculateSpentAmount(txs, category) == SumAmounts(MatchingExpenses(txs, category))

\* ------------------------------------------------- Numbers that are not integers
\* A Number is an IEEE 754 binary64 value.  A positive one is written here as
\* sig * 2^exp with sig a string of 53 bits, most significant (a 1) first;
\* zero has the empty string.
Zero64 == [exp |-> 0, sig |-> << >>]

Zeros(n) == [k \in 1..n |-> 0]

\* the carry into bit i of the sum of two bit strings of equal length: a bit
\* pair to its right generates one (1 + 1) and every pair in between passes
\* it on (0 + 1), or the pairs to its right pass the incoming carry on
CarryInto(a, b, carry, i) ==
  LET n == Len(a)
  IN  IF \/ \E j \in (i + 1)..n :
               /\ a[j] + b[j] = 2
               /\ \A k \in (i + 1)..(j - 1) : a[k] + b[k] = 1
         \/ carry = 1 /\ \A k \in (i + 1)..n : a[k] + b[k] = 1
      THEN 1 ELSE 0

\* sum of two bit strings of equal length and a carry: one bit longer
AddBits(a, b, carry) ==
  [i \in 1..(Len(a) + 1) |->
     IF i = 1 THEN CarryInto(a, b, carry, 0)
     ELSE (a[i - 1] + b[i - 1] + CarryInto(a, b, carry, i - 1)) % 2]

StripZeros(bits) ==
  LET ones == {i \in 1..Len(bits) : bits[i] = 1}
  IN  IF ones = {} THEN << >>
      ELSE SubSeq(bits, CHOOSE i \in ones : \A j \in ones : i <= j, Len(bits))

\* a bit string with leading 1 rounded to 53 bits, to nearest, ties to even;
\* shift is the number of bits dropped
Round53(bits) ==
  LET n == Len(bits)
  IN  IF n <= 53 THEN [sig |-> bits \o Zeros(53 - n), shift |-> n - 53]
      ELSE LET kept == SubSeq(bits, 1, 53)
               rest == SubSeq(bits, 54, n)
               half == << 1 >> \o Zeros(n - 54)
               up   == rest[1] = 1 /\ (rest /= half \/ kept[53] = 1)
               inc  == StripZeros(AddBits(kept, Zeros(52) \o << 1 >>, 0))
           IN  IF ~up THEN [sig |-> kept, shift |-> n - 53]
               ELSE IF Len(inc) = 54
                 THEN [sig |-> SubSeq(inc, 1, 53), shift |-> n - 52]
               ELSE [sig |-> inc, shift |-> n - 53]

\* total + t.amount on Numbers: the exact sum, rounded
Binary64Add(x, y) ==
  IF x.sig = << >> THEN y
  ELSE IF y.sig = << >> THEN x
  ELSE LET lo  == IF x.exp <= y.exp THEN x ELSE y
           hi  == IF x.exp <= y.exp THEN y ELSE x
           d   == hi.exp - lo.exp
           sum == StripZeros(AddBits(hi.sig \o Zeros(d), Zeros(d) \o lo.sig, 0))
           r   == Round53(sum)
       IN  [exp |-> lo.exp + r.shift, sig |-> r.sig]

\* parseFloat("0.1")
Tenth ==
  [ exp |-> -56,
    sig |-> << 1, 1, 0, 0, 1, 1, 0, 0, 1, 1, 0, 0, 1, 1, 0, 0,
              1, 1, 0, 0, 1, 1, 0, 0, 1, 1, 0, 0, 1, 1, 0, 0,
              1, 1, 0, 0, 1, 1, 0, 0, 1, 1, 0, 0, 1, 1, 0, 0,
              1, 1, 0, 1, 0 >> ]

\* parseFloat("0.2")
Fifth ==
  [ exp |-> -55,
    sig |-> << 1, 1, 0, 0, 1, 1, 0, 0, 1, 1, 0, 0, 1, 1, 0, 0,
              1, 1, 0, 0, 1, 1, 0, 0, 1, 1, 0, 0, 1, 1, 0, 0,
              1, 1, 0, 0, 1, 1, 0, 0, 1, 1, 0, 0, 1, 1, 0, 0,
              1, 1, 0, 1, 0 >> ]

\* parseFloat("0.3")
ThreeTenths ==
  [ exp |-> -54,
    sig |-> << 1, 0, 0, 1, 1, 0, 0, 1, 1, 0, 0, 1, 1, 0, 0, 1,
              1, 0, 0, 1, 1, 0, 0, 1, 1, 0, 0, 1, 1, 0, 0, 1,
              1, 0, 0, 1, 1, 0, 0, 1, 1, 0, 0, 1, 1, 0, 0, 1,
              1, 0, 0, 1, 1 >> ]

\* .reduce((total, t) => total + t.amount, 0) over Numbers
RECURSIVE SumAmounts64(_)
SumAmounts64(s) ==
  IF s = << >> THEN Zero64
  ELSE Binary64Add(SumAmounts64(SubSeq(s, 1, Len(s) - 1)), s[Len(s)].amount)

calculateSpentAmountAnyType(txs, category) ==
  LET Match(tr) == tr.category = category
  IN  SumAmounts64(SelectSeq(txs, Match))

\* calculateSpentAmount over a ledger whose amounts are Numbers
calculateSpentAmount64(txs, category) == SumAmounts64(MatchingExpenses(txs, category))

SpreadResetDate(row, fields) ==
  [k \in DOMAIN row \cup DOMAIN fields |->
      IF k = "date" THEN 0
      ELSE IF k \in DOMAIN fields THEN fields[k] ELSE row[k]]

\* { ...row, ...fields }
Spread(row, fields) ==
  [k \in DOMAIN row \cup DOMAIN fields |->
      IF k \in DOMAIN fields THEN fields[k] ELSE row[k]]

\* a row of the remote table transactions as a Transaction: Number(amount)
\* of a numeric amount and the ISO day of a date-only value are the values
\* themselves
toTransaction(t) ==
  [ id |-> t.id, amount |-> t.amount, category |-> t.category,
    date |-> t.date, type |-> t.type ]

\* a row of the remote table budgets as a Budget
toBudget(b) ==
  [ id |-> b.id, category |-> b.category, limit |-> b.limit,
    spent |-> b.spent, period |-> b.period ]

\* a row of the remote table categories as a Category
toCategory(c) ==
  [ id |-> c.id, name |-> c.name, type |-> c.type, color |-> c.color ]

\* .order('date', { ascending: false }): rows by date, latest first; rows of
\* equal date keep their stored order
RECURSIVE InsertByDate(_, _)
InsertByDate(row, sorted) ==
  IF sorted = << >> THEN << row >>
  ELSE IF row.date > Head(sorted).date THEN << row >> \o sorted
  ELSE << Head(sorted) >> \o InsertByDate(row, Tail(sorted))

RECURSIVE OrderByDateDesc(_)
OrderByDateDesc(rows) ==
  IF rows = << >> THEN << >>
  ELSE InsertByDate(rows[Len(rows)], OrderByDateDesc(SubSeq(rows, 1, Len(rows) - 1)))

\* ------------------------------------------------------------------- state
VARIABLES
  transactions,   \* useState<Transaction[]>
  budgets,        \* useState<Budget[]>
  categories,     \* useState<Category[]>
  isLoading,      \* useState<boolean>
  auth,           \* isAuthenticated && user
  rTx,            \* remote table transactions (rows in stored order)
  rBud,           \* remote table budgets
  rCat,           \* remote table categories
  nextId,         \* next identifier the remote store generates
  ops             \* handler invocations, in order of invocation

vars == << transactions, budgets, categories, isLoading, auth, rTx, rBud, rCat, nextId, ops >>

NoRow == [id |-> 0]

\* an identifier no row of the store has
UnknownId == 0

TxKinds == {"addTransaction", "updateTransaction", "deleteTransaction"}

\* a handler invocation; snapTx / snapBud are the state its closures see
NewOp(kind, pc, arg) ==
  [ kind |-> kind, pc |-> pc, net |-> "sent", arg |-> arg,
    snapTx |-> transactions, snapBud |-> budgets,
    resp |-> NoRow, fTx |-> << >>, fBud |-> << >>, fCat |-> << >>, todo |-> << >>,
    phase |-> "RemotePending", applied |-> FALSE, failed |-> "none",
    refreshed |-> FALSE, log |-> << >>,
    alone |-> \A j \in DOMAIN ops : ops[j].pc = "done" ]

\* the handler issues a remote write: log records every write it issues
Issue(o, pc, w, key) ==
  [ o EXCEPT !.pc = pc, !.net = "sent",
             !.log = Append(@, [w |-> w, key |-> key, res |-> "sent"]) ]

\* the remote store has processed the request in flight
Answered(o, res) ==
  [ o EXCEPT !.net = res,
             !.log = IF @ = << >> THEN @ ELSE [@ EXCEPT ![Len(@)].res = res] ]

NeverThrown(o) == FALSE

\* `if (error) throw error` after an awaited update or delete
Thrown(o) == o.net = "err"

\* `if (error) throw error` after an awaited insert(...).select('*').single()
InsertThrown(o) == o.net = "err"

\* the handler has returned: its closures are dropped
Finish(o, phase) ==
  [ o EXCEPT !.pc = "done", !.net = "none", !.phase = phase,
             !.snapTx = << >>, !.snapBud = << >>, !.fTx = << >>, !.fBud = << >>,
             !.fCat = << >>, !.todo = << >> ]

\* invoking a handler while others are in flight
Start(o) ==
  Append([j \in DOMAIN ops |-> IF ops[j].pc = "done" THEN ops[j]
                                ELSE [ops[j] EXCEPT !.alone = FALSE]], o)

AuthenticatedAlways == TRUE

\* `if (!isAuthenticated || !user) return;` at the head of every handler:
\* the handler returns before it reads its arguments
Authenticated == auth
NoOp(kind) == Finish(NewOp(kind, "done", NoRow), "NoOp")

InFlight(i) == i \in DOMAIN ops /\ ops[i].pc /= "done"
Quiescent == \A i \in DOMAIN ops : ops[i].pc = "done"
CanInvoke ==
  /\ Cardinality({i \in DOMAIN ops : ops[i].kind /= "effect"}) < MaxOps
  /\ Cardinality({i \in DOMAIN ops : ops[i].pc /= "done"}) < MaxInFlight

Init ==
  /\ transactions = << >>
  /\ budgets = << >>
  /\ categories = << >>
  /\ isLoading = FALSE
  /\ auth = FALSE
  /\ \E s \in Seeds : rTx = s.tx /\ rBud = s.bud /\ rCat = s.cat
  /\ nextId = 4
  /\ ops = << >>


\* ------------------------------------------------------------- refreshData
\* refreshData up to its first await: setIsLoading(true), select transactions
RefreshIssued(o, phase) ==
  [ o EXCEPT !.pc = "selTx", !.net = "sent", !.phase = phase ]

\* the auth listener installs a user; the provider's effect calls refreshData
Login ==
  /\ ~auth
  /\ auth' = TRUE
  /\ isLoading' = TRUE
  /\ ops' = Start(RefreshIssued(NewOp("effect", "selTx", NoRow), "Refreshing"))
  /\ UNCHANGED << transactions, budgets, rTx, rBud, nextId, categories, rCat >>

\* refreshData called from the user interface
RefreshData ==
  /\ CanInvoke
  /\ IF Authenticated
       THEN /\ isLoading' = TRUE
            /\ ops' = Start(RefreshIssued(NewOp("refreshData", "selTx", NoRow), "Refreshing"))
       ELSE /\ isLoading' = FALSE
            /\ ops' = Start(NoOp("refreshData"))
  /\ UNCHANGED << transactions, budgets, auth, rTx, rBud, nextId, categories, rCat >>

\* the remote store answers one of the three selects
ServerSelect(i) ==
  /\ InFlight(i)
  /\ ops[i].pc \in {"selTx", "selBud", "selCat"}
  /\ ops[i].net = "sent"
  /\ \E ok \in BOOLEAN :
       ops' = [ops EXCEPT ![i] =
                 IF ~ok THEN [@ EXCEPT !.net = "err"]
                 ELSE IF @.pc = "selTx"
                   THEN [@ EXCEPT !.fTx = OrderByDateDesc(rTx), !.pc = "selBud"]
                 ELSE IF @.pc = "selBud"
                   THEN [@ EXCEPT !.fBud = rBud, !.pc = "selCat"]
                 ELSE [@ EXCEPT !.fCat = rCat, !.net = "ok"]]
  /\ UNCHANGED << transactions, budgets, isLoading, auth, rTx, rBud, nextId, categories, rCat >>

RefreshEnd(o, ok) ==
  IF o.kind \in TxKinds
    THEN (IF ok THEN "Reconciled" ELSE "RefreshFailed")
    ELSE (IF ok THEN "Refreshed" ELSE "RefreshFailed")

DeliverRefreshPartial(i) ==
  /\ InFlight(i)
  /\ ops[i].pc \in {"selTx", "selBud", "selCat"}
  /\ ops[i].net \in {"ok", "err"}
  /\ IF ops[i].net = "ok"
       THEN /\ transactions' = MapIdx(ops[i].fTx, toTransaction)
            /\ budgets' = MapIdx(ops[i].fBud, toBudget)
            /\ categories' = MapIdx(ops[i].fCat, toCategory)
       ELSE /\ transactions' = IF ops[i].pc = "selTx" THEN transactions
                               ELSE MapIdx(ops[i].fTx, toTransaction)
            /\ UNCHANGED << budgets, categories >>
  /\ isLoading' = FALSE
  /\ ops' = [ops EXCEPT ![i] = Finish(@, RefreshEnd(@, ops[i].net = "ok"))]
  /\ UNCHANGED << auth, rTx, rBud, nextId, rCat >>

DeliverRefreshKeepLocal(i) ==
  /\ InFlight(i)
  /\ ops[i].pc \in {"selTx", "selBud", "selCat"}
  /\ ops[i].net \in {"ok", "err"}
  /\ IF ops[i].net = "ok"
       THEN /\ transactions' = MapIdx(ops[i].fTx, toTransaction)
            /\ budgets' = IF budgets = << >> THEN MapIdx(ops[i].fBud, toBudget)
                          ELSE budgets
            /\ categories' = MapIdx(ops[i].fCat, toCategory)
       ELSE UNCHANGED << transactions, budgets, categories >>
  /\ isLoading' = FALSE
  /\ ops' = [ops EXCEPT ![i] = Finish(@, RefreshEnd(@, ops[i].net = "ok"))]
  /\ UNCHANGED << auth, rTx, rBud, nextId, rCat >>

\* refreshData after its last await: the three setters, or the catch block;
\* finally setIsLoading(false)
DeliverRefresh(i) ==
  /\ InFlight(i)
  /\ ops[i].pc \in {"selTx", "selBud", "selCat"}
  /\ ops[i].net \in {"ok", "err"}
  /\ IF ops[i].net = "ok"
       THEN /\ transactions' = MapIdx(ops[i].fTx, toTransaction)
            /\ budgets' = MapIdx(ops[i].fBud, toBudget)
            /\ categories' = MapIdx(ops[i].fCat, toCategory)
       ELSE UNCHANGED << transactions, budgets, categories >>
  /\ isLoading' = FALSE
  /\ ops' = [ops EXCEPT ![i] = Finish(@, RefreshEnd(@, ops[i].net = "ok"))]
  /\ UNCHANGED << auth, rTx, rBud, nextId, rCat >>

\* ---------------------------------------------------------- addTransaction
AddTransaction(t) ==
  /\ CanInvoke
  /\ IF Authenticated
       THEN ops' = Start(Issue(NewOp("addTransaction", "insert", t), "insert", "tx", 0))
       ELSE ops' = Start(NoOp("addTransaction"))
  /\ UNCHANGED << transactions, budgets, isLoading, auth, rTx, rBud, nextId, categories, rCat >>

\* remote insert into transactions, .select('*').single()
ServerInsertTransaction(i) ==
  /\ InFlight(i)
  /\ ops[i].kind = "addTransaction" /\ ops[i].pc = "insert" /\ ops[i].net = "sent"
  /\ \E ok \in BOOLEAN :
       IF ok
         THEN LET row == [id |-> nextId, amount |-> ops[i].arg.amount,
                          category |-> ops[i].arg.category,
                          date |-> ops[i].arg.date, type |-> ops[i].arg.type]
              IN  /\ rTx' = Append(rTx, row)
                  /\ nextId' = nextId + 1
                  /\ ops' = [ops EXCEPT ![i] = Answered([@ EXCEPT !.resp = row], "ok")]
         ELSE /\ ops' = [ops EXCEPT ![i] = Answered(@, "err")]
              /\ UNCHANGED << rTx, nextId >>
  /\ UNCHANGED << transactions, budgets, isLoading, auth, rBud, categories, rCat >>

IncrementSpentOverwrite(prev, category, amount) ==
  LET Bump(b) == IF b.category = category THEN [b EXCEPT !.spent = amount] ELSE b
  IN  MapIdx(prev, Bump)

IncrementSpentAll(prev, category, amount) ==
  LET Bump(b) == [b EXCEPT !.spent = b.spent + amount]
  IN  MapIdx(prev, Bump)

\* setBudgets(prev => prev.map(...)) of updateBudgetsAfterTransaction
IncrementSpent(prev, category, amount) ==
  LET Bump(b) == IF b.category = category
                   THEN [b EXCEPT !.spent = b.spent + amount] ELSE b
  IN  MapIdx(prev, Bump)

\* budgets.find(b => b.category === category) in the closure's budgets
FindBudget(bs, category) ==
  LET hits == {k \in 1..Len(bs) : bs[k].category = category}
  IN  IF hits = {} THEN NoRow
      ELSE bs[CHOOSE k \in hits : \A m \in hits : k <= m]

\* updateBudgetsAfterTransaction up to its await: the operation after it
UpdateBudgetsAfterTransaction(o) ==
  LET budgetToUpdate == FindBudget(o.snapBud, o.arg.category)
  IN  IF budgetToUpdate = NoRow
        THEN Finish(o, "RemoteConfirmed")
        ELSE Issue([o EXCEPT !.resp = [id |-> o.resp.id,
                                       spent |-> budgetToUpdate.spent + o.arg.amount]],
                   "budWrite", "inc", o.arg.category)

CatchAndRefresh(o, what) ==
  [ o EXCEPT !.pc = "selTx", !.net = "sent", !.phase = "RefreshTriggered",
             !.failed = what, !.refreshed = TRUE ]

CatchRethrow(o, what) == Finish([o EXCEPT !.failed = what], "Rejected")

\* catch block of addTransaction, updateTransaction, deleteTransaction, of
\* the budget and of the category handlers: report the failure and return
Catch(o, what) == Finish([o EXCEPT !.failed = what], "RemoteFailed")

DeliverAddTransactionSorted(i) ==
  /\ InFlight(i)
  /\ ops[i].kind = "addTransaction" /\ ops[i].pc = "insert"
  /\ ops[i].net \in {"ok", "err"}
  /\ IF ~InsertThrown(ops[i])
       THEN LET o == [ops[i] EXCEPT !.applied = TRUE]
                newTransaction == toTransaction(ops[i].resp)
            IN  /\ transactions' = InsertByDate(newTransaction, transactions)
                /\ IF o.arg.type = "expense"
                     THEN /\ budgets' = IncrementSpent(budgets, o.arg.category, o.arg.amount)
                          /\ ops' = [ops EXCEPT ![i] = UpdateBudgetsAfterTransaction(o)]
                     ELSE /\ budgets' = budgets
                          /\ ops' = [ops EXCEPT ![i] = Finish(o, "RemoteConfirmed")]
       ELSE /\ ops' = [ops EXCEPT ![i] = Catch(@, "tx")]
            /\ UNCHANGED << transactions, budgets >>
  /\ UNCHANGED << isLoading, auth, rTx, rBud, nextId, categories, rCat >>

\* addTransaction after its await
DeliverAddTransaction(i) ==
  /\ InFlight(i)
  /\ ops[i].kind = "addTransaction" /\ ops[i].pc = "insert"
  /\ ops[i].net \in {"ok", "err"}
  /\ IF ~InsertThrown(ops[i])
       THEN LET o == [ops[i] EXCEPT !.applied = TRUE]
                newTransaction == toTransaction(ops[i].resp)
            IN  /\ transactions' = << newTransaction >> \o transactions
                /\ IF o.arg.type = "expense"
                     THEN /\ budgets' = IncrementSpent(budgets, o.arg.category, o.arg.amount)
                          /\ ops' = [ops EXCEPT ![i] = UpdateBudgetsAfterTransaction(o)]
                     ELSE /\ budgets' = budgets
                          /\ ops' = [ops EXCEPT ![i] = Finish(o, "RemoteConfirmed")]
       ELSE /\ ops' = [ops EXCEPT ![i] = Catch(@, "tx")]
            /\ UNCHANGED << transactions, budgets >>
  /\ UNCHANGED << isLoading, auth, rTx, rBud, nextId, categories, rCat >>

\* remote update({ spent }).eq('category', category)
ServerBudgetWrite(i) ==
  /\ InFlight(i)
  /\ ops[i].pc = "budWrite" /\ ops[i].net = "sent"
  /\ \E ok \in BOOLEAN :
       IF ok
         THEN LET Set(r) == IF r.category = ops[i].arg.category
                              THEN [r EXCEPT !.spent = ops[i].resp.spent] ELSE r
              IN  /\ rBud' = MapIdx(rBud, Set)
                  /\ ops' = [ops EXCEPT ![i] = Answered(@, "ok")]
         ELSE /\ ops' = [ops EXCEPT ![i] = Answered(@, "err")]
              /\ UNCHANGED rBud
  /\ UNCHANGED << transactions, budgets, isLoading, auth, rTx, nextId, categories, rCat >>

UpdateBudgetsCatchSilent(o) == Finish([o EXCEPT !.failed = "inc"], "RemoteFailed")

UpdateBudgetsCatchRetry(o) ==
  Issue([o EXCEPT !.failed = "inc"], "budWrite", "inc", o.arg.category)

UpdateBudgetsCatchSpin(o) == [o EXCEPT !.failed = "inc", !.net = "sent"]

\* catch block of updateBudgetsAfterTransaction: refreshData()
UpdateBudgetsCatch(o) ==
  [ RefreshIssued(o, "RefreshTriggered") EXCEPT !.failed = "inc", !.refreshed = TRUE ]

DeliverBudgetWriteRollback(i) ==
  /\ InFlight(i)
  /\ ops[i].pc = "budWrite" /\ ops[i].net \in {"ok", "err"}
  /\ ops' = [ops EXCEPT ![i] = IF ~Thrown(@) THEN Finish(@, "RemoteConfirmed")
                                               ELSE UpdateBudgetsCatch(@)]
  /\ isLoading' = (isLoading \/ ops'[i].pc = "selTx")
  /\ budgets' = IF Thrown(ops[i]) THEN ops[i].snapBud ELSE budgets
  /\ UNCHANGED << transactions, auth, rTx, rBud, nextId, categories, rCat >>

\* updateBudgetsAfterTransaction after its await
DeliverBudgetWrite(i) ==
  /\ InFlight(i)
  /\ ops[i].pc = "budWrite" /\ ops[i].net \in {"ok", "err"}
  /\ ops' = [ops EXCEPT ![i] = IF ~Thrown(@) THEN Finish(@, "RemoteConfirmed")
                                               ELSE UpdateBudgetsCatch(@)]
  /\ isLoading' = (isLoading \/ ops'[i].pc = "selTx")
  /\ UNCHANGED << transactions, budgets, auth, rTx, rBud, nextId, categories, rCat >>


\* ------------------------------------------- updateTransaction / delete
\* the rows the transactions page offers for editing and deleting
LocalIds == {transactions[k].id : k \in 1..Len(transactions)}

UpdateTransaction(id, fields) ==
  /\ CanInvoke
  /\ id \in LocalIds \cup {UnknownId}
  /\ IF Authenticated
       THEN ops' = Start(Issue(NewOp("updateTransaction", "update",
                                     [id |-> id, fields |-> fields]),
                               "update", "tx", id))
       ELSE ops' = Start(NoOp("updateTransaction"))
  /\ UNCHANGED << transactions, budgets, isLoading, auth, rTx, rBud, nextId, categories, rCat >>

DeleteTransaction(id) ==
  /\ CanInvoke
  /\ id \in LocalIds \cup {UnknownId}
  /\ IF Authenticated
       THEN ops' = Start(Issue(NewOp("deleteTransaction", "delete", [id |-> id]),
                               "delete", "tx", id))
       ELSE ops' = Start(NoOp("deleteTransaction"))
  /\ UNCHANGED << transactions, budgets, isLoading, auth, rTx, rBud, nextId, categories, rCat >>

\* remote update(fields).eq('id', id) / delete().eq('id', id) on transactions
ServerWriteTransaction(i) ==
  /\ InFlight(i)
  /\ ops[i].pc \in {"update", "delete"} /\ ops[i].net = "sent"
  /\ \E ok \in BOOLEAN :
       IF ok
         THEN LET Upd(r) == IF r.id = ops[i].arg.id
                              THEN Spread(r, ops[i].arg.fields) ELSE r
                  Keep(r) == r.id /= ops[i].arg.id
              IN  /\ rTx' = IF ops[i].pc = "update" THEN MapIdx(rTx, Upd)
                                                     ELSE SelectSeq(rTx, Keep)
                  /\ ops' = [ops EXCEPT ![i] = Answered(@, "ok")]
         ELSE /\ ops' = [ops EXCEPT ![i] = Answered(@, "err")]
              /\ UNCHANGED rTx
  /\ UNCHANGED << transactions, budgets, isLoading, auth, rBud, nextId, categories, rCat >>

\* budgets.map(b => ({ ...b, spent: calculateSpentAmount(b.category) })) in
\* the closure of the running handler
RecalculatedBudgets(o) ==
  LET Recalc(b) == [b EXCEPT !.spent = calculateSpentAmount(o.snapTx, b.category)]
  IN  MapIdx(o.snapBud, Recalc)

\* recalculateBudgets up to its first await: the operation after it
RecalculateBudgets(o) ==
  LET updatedBudgets == RecalculatedBudgets(o)
  IN  IF updatedBudgets = << >>
        THEN Finish(o, "RemoteConfirmed")
        ELSE Issue([o EXCEPT !.todo = updatedBudgets],
                   "recalc", "recalc", updatedBudgets[1].id)

DeliverWriteTransactionOptimistic(i) ==
  /\ InFlight(i)
  /\ ops[i].pc \in {"update", "delete"} /\ ops[i].net \in {"ok", "err"}
  /\ LET o == [ops[i] EXCEPT !.applied = TRUE]
         Upd(tr) == IF tr.id = o.arg.id THEN Spread(tr, o.arg.fields) ELSE tr
         Keep(tr) == tr.id /= o.arg.id
     IN  /\ transactions' = IF o.pc = "update" THEN MapIdx(transactions, Upd)
                                                ELSE SelectSeq(transactions, Keep)
         /\ IF ~Thrown(ops[i])
              THEN /\ budgets' = RecalculatedBudgets(o)
                   /\ ops' = [ops EXCEPT ![i] = RecalculateBudgets(o)]
              ELSE /\ budgets' = budgets
                   /\ ops' = [ops EXCEPT ![i] = Catch(@, "tx")]
  /\ UNCHANGED << isLoading, auth, rTx, rBud, nextId, categories, rCat >>

\* updateTransaction / deleteTransaction after the await of the remote write
DeliverWriteTransaction(i) ==
  /\ InFlight(i)
  /\ ops[i].pc \in {"update", "delete"} /\ ops[i].net \in {"ok", "err"}
  /\ IF ~Thrown(ops[i])
       THEN LET o == [ops[i] EXCEPT !.applied = TRUE]
                Upd(tr) == IF tr.id = o.arg.id THEN Spread(tr, o.arg.fields) ELSE tr
                Keep(tr) == tr.id /= o.arg.id
            IN  /\ transactions' = IF o.pc = "update" THEN MapIdx(transactions, Upd)
                                                       ELSE SelectSeq(transactions, Keep)
                /\ budgets' = RecalculatedBudgets(o)
                /\ ops' = [ops EXCEPT ![i] = RecalculateBudgets(o)]
       ELSE /\ ops' = [ops EXCEPT ![i] = Catch(@, "tx")]
            /\ UNCHANGED << transactions, budgets >>
  /\ UNCHANGED << isLoading, auth, rTx, rBud, nextId, categories, rCat >>

ServerRecalcWriteContinue(i) ==
  /\ InFlight(i)
  /\ ops[i].pc = "recalc" /\ ops[i].net = "sent"
  /\ \E ok \in BOOLEAN :
       LET b == Head(ops[i].todo)
           Set(r) == IF r.id = b.id THEN [r EXCEPT !.spent = b.spent] ELSE r
           res == IF ok THEN "ok" ELSE "err"
       IN  /\ rBud' = IF ok THEN MapIdx(rBud, Set) ELSE rBud
           /\ ops' = [ops EXCEPT ![i] =
                        IF Len(@.todo) > 1
                          THEN Issue([Answered(@, res) EXCEPT !.todo = Tail(@)],
                                     "recalc", "recalc", @.todo[2].id)
                          ELSE Answered(@, res)]
  /\ UNCHANGED << transactions, budgets, isLoading, auth, rTx, nextId, categories, rCat >>

\* remote update({ spent }).eq('id', budget.id), one budget of the loop
ServerRecalcWrite(i) ==
  /\ InFlight(i)
  /\ ops[i].pc = "recalc" /\ ops[i].net = "sent"
  /\ \E ok \in BOOLEAN :
       IF ok
         THEN LET b == Head(ops[i].todo)
                  Set(r) == IF r.id = b.id THEN [r EXCEPT !.spent = b.spent] ELSE r
              IN  /\ rBud' = MapIdx(rBud, Set)
                  /\ ops' = [ops EXCEPT ![i] =
                               IF Len(@.todo) > 1
                                 THEN Issue([Answered(@, "ok") EXCEPT !.todo = Tail(@)],
                                            "recalc", "recalc", @.todo[2].id)
                                 ELSE Answered(@, "ok")]
         ELSE /\ ops' = [ops EXCEPT ![i] = Answered(@, "err")]
              /\ UNCHANGED rBud
  /\ UNCHANGED << transactions, budgets, isLoading, auth, rTx, nextId, categories, rCat >>

\* catch block of recalculateBudgets: report the failure and return
RecalculateCatch(o) == Finish([o EXCEPT !.failed = "recalc"], "RemoteFailed")

\* recalculateBudgets after its loop or in its catch; the caller then returns
DeliverRecalc(i) ==
  /\ InFlight(i)
  /\ ops[i].pc = "recalc" /\ ops[i].net \in {"ok", "err"}
  /\ ops' = [ops EXCEPT ![i] =
               IF ~Thrown(@) THEN Finish(@, "RemoteConfirmed")
               ELSE RecalculateCatch(@)]
  /\ UNCHANGED << transactions, budgets, isLoading, auth, rTx, rBud, nextId, categories, rCat >>

\* --------------------------------------------------------------- addBudget
InitialSpentZero(txs, category) == 0

\* const spent = calculateSpentAmount(budget.category)
InitialSpent(txs, category) == calculateSpentAmount(txs, category)

AddBudget(b) ==
  /\ CanInvoke
  /\ IF Authenticated
       THEN LET spent == InitialSpent(transactions, b.category)
            IN  ops' = Start(Issue(NewOp("addBudget", "insert",
                                         [category |-> b.category, limit |-> b.limit,
                                          spent |-> spent, period |-> b.period]),
                                   "insert", "budget", 0))
       ELSE ops' = Start(NoOp("addBudget"))
  /\ UNCHANGED << transactions, budgets, isLoading, auth, rTx, rBud, nextId, categories, rCat >>

ServerInsertBudget(i) ==
  /\ InFlight(i)
  /\ ops[i].kind = "addBudget" /\ ops[i].pc = "insert" /\ ops[i].net = "sent"
  /\ \E ok \in BOOLEAN :
       IF ok
         THEN LET row == [id |-> nextId, category |-> ops[i].arg.category,
                          limit |-> ops[i].arg.limit, spent |-> ops[i].arg.spent,
                          period |-> ops[i].arg.period]
              IN  /\ rBud' = Append(rBud, row)
                  /\ nextId' = nextId + 1
                  /\ ops' = [ops EXCEPT ![i] = Answered([@ EXCEPT !.resp = row], "ok")]
         ELSE /\ ops' = [ops EXCEPT ![i] = Answered(@, "err")]
              /\ UNCHANGED << rBud, nextId >>
  /\ UNCHANGED << transactions, budgets, isLoading, auth, rTx, categories, rCat >>

DeliverAddBudget(i) ==
  /\ InFlight(i)
  /\ ops[i].kind = "addBudget" /\ ops[i].pc = "insert" /\ ops[i].net \in {"ok", "err"}
  /\ IF ~InsertThrown(ops[i])
       THEN /\ budgets' = << toBudget(ops[i].resp) >> \o budgets
            /\ ops' = [ops EXCEPT ![i] = Finish([@ EXCEPT !.applied = TRUE], "RemoteConfirmed")]
       ELSE /\ ops' = [ops EXCEPT ![i] = Catch(@, "budget")]
            /\ UNCHANGED budgets
  /\ UNCHANGED << transactions, isLoading, auth, rTx, rBud, nextId, categories, rCat >>

\* ------------------------------------------- updateBudget / deleteBudget
\* the budgets the budgets page offers, and an identifier no row has
BudgetIds == {budgets[k].id : k \in 1..Len(budgets)}

\* updateData of updateBudget: the supplied columns
UpdateData(budget) ==
  [k \in DOMAIN budget \cap {"category", "limit", "spent", "period"} |-> budget[k]]

UpdateBudget(id, budget) ==
  /\ CanInvoke
  /\ id \in BudgetIds \cup {UnknownId}
  /\ IF Authenticated
       THEN ops' = Start(Issue(NewOp("updateBudget", "updBud",
                                     [id |-> id, fields |-> budget]),
                               "updBud", "budget", id))
       ELSE ops' = Start(NoOp("updateBudget"))
  /\ UNCHANGED << transactions, budgets, categories, isLoading, auth, rTx, rBud, rCat, nextId >>

DeleteBudget(id) ==
  /\ CanInvoke
  /\ id \in BudgetIds \cup {UnknownId}
  /\ IF Authenticated
       THEN ops' = Start(Issue(NewOp("deleteBudget", "delBud", [id |-> id]),
                               "delBud", "budget", id))
       ELSE ops' = Start(NoOp("deleteBudget"))
  /\ UNCHANGED << transactions, budgets, categories, isLoading, auth, rTx, rBud, rCat, nextId >>

\* remote update(updateData).eq('id', id) / delete().eq('id', id) on budgets
ServerWriteBudget(i) ==
  /\ InFlight(i)
  /\ ops[i].pc \in {"updBud", "delBud"} /\ ops[i].net = "sent"
  /\ \E ok \in BOOLEAN :
       IF ok
         THEN LET Upd(r) == IF r.id = ops[i].arg.id
                              THEN Spread(r, UpdateData(ops[i].arg.fields)) ELSE r
                  Keep(r) == r.id /= ops[i].arg.id
              IN  /\ rBud' = IF ops[i].pc = "updBud" THEN MapIdx(rBud, Upd)
                                                      ELSE SelectSeq(rBud, Keep)
                  /\ ops' = [ops EXCEPT ![i] = Answered(@, "ok")]
         ELSE /\ ops' = [ops EXCEPT ![i] = Answered(@, "err")]
              /\ UNCHANGED rBud
  /\ UNCHANGED << transactions, budgets, categories, isLoading, auth, rTx, rCat, nextId >>

DeliverWriteBudgetResetSpent(i) ==
  /\ InFlight(i)
  /\ ops[i].pc \in {"updBud", "delBud"} /\ ops[i].net \in {"ok", "err"}
  /\ IF ~Thrown(ops[i])
       THEN LET Upd(b) == IF b.id = ops[i].arg.id
                              THEN [Spread(b, ops[i].arg.fields) EXCEPT !.spent = 0]
                              ELSE b
                Keep(b) == b.id /= ops[i].arg.id
            IN  /\ budgets' = IF ops[i].pc = "updBud" THEN MapIdx(budgets, Upd)
                                                       ELSE SelectSeq(budgets, Keep)
                /\ ops' = [ops EXCEPT ![i] =
                             Finish([@ EXCEPT !.applied = TRUE], "RemoteConfirmed")]
       ELSE /\ ops' = [ops EXCEPT ![i] = Catch(@, "budget")]
            /\ UNCHANGED budgets
  /\ UNCHANGED << transactions, categories, isLoading, auth, rTx, rBud, rCat, nextId >>

\* updateBudget / deleteBudget after the await of the remote write
DeliverWriteBudget(i) ==
  /\ InFlight(i)
  /\ ops[i].pc \in {"updBud", "delBud"} /\ ops[i].net \in {"ok", "err"}
  /\ IF ~Thrown(ops[i])
       THEN LET Upd(b) == IF b.id = ops[i].arg.id
                              THEN Spread(b, ops[i].arg.fields) ELSE b
                Keep(b) == b.id /= ops[i].arg.id
            IN  /\ budgets' = IF ops[i].pc = "updBud" THEN MapIdx(budgets, Upd)
                                                       ELSE SelectSeq(budgets, Keep)
                /\ ops' = [ops EXCEPT ![i] =
                             Finish([@ EXCEPT !.applied = TRUE], "RemoteConfirmed")]
       ELSE /\ ops' = [ops EXCEPT ![i] = Catch(@, "budget")]
            /\ UNCHANGED budgets
  /\ UNCHANGED << transactions, categories, isLoading, auth, rTx, rBud, rCat, nextId >>

\* ------------------------------ addCategory / updateCategory / deleteCategory
CategoryIds == {categories[k].id : k \in 1..Len(categories)}

AddCategory(c) ==
  /\ CanInvoke
  /\ IF Authenticated
       THEN ops' = Start(Issue(NewOp("addCategory", "insCat", c), "insCat", "category", 0))
       ELSE ops' = Start(NoOp("addCategory"))
  /\ UNCHANGED << transactions, budgets, categories, isLoading, auth, rTx, rBud, rCat, nextId >>

\* name.toLowerCase() of the names that occur
ToLower(name) ==
  CASE name = "Food" -> "food"
    [] name = "Rent" -> "rent"
    [] OTHER -> name

\* handleAddNewCategory of the budget and of the transaction form: a name
\* that some category of the current render has, ignoring case, is rejected
\* in the form; any other name is passed to addCategory, which is not awaited
HandleAddNewCategory(c) ==
  IF \E k \in DOMAIN categories : ToLower(categories[k].name) = ToLower(c.name)
    THEN /\ CanInvoke
         /\ ops' = Start(NoOp("handleAddNewCategory"))
         /\ UNCHANGED << transactions, budgets, categories, isLoading, auth,
                        rTx, rBud, rCat, nextId >>
    ELSE AddCategory(c)

UpdateCategory(id, category) ==
  /\ CanInvoke
  /\ id \in CategoryIds \cup {UnknownId}
  /\ IF Authenticated
       THEN ops' = Start(Issue(NewOp("updateCategory", "updCat",
                                     [id |-> id, fields |-> category]),
                               "updCat", "category", id))
       ELSE ops' = Start(NoOp("updateCategory"))
  /\ UNCHANGED << transactions, budgets, categories, isLoading, auth, rTx, rBud, rCat, nextId >>

DeleteCategory(id) ==
  /\ CanInvoke
  /\ id \in CategoryIds \cup {UnknownId}
  /\ IF Authenticated
       THEN ops' = Start(Issue(NewOp("deleteCategory", "delCat", [id |-> id]),
                               "delCat", "category", id))
       ELSE ops' = Start(NoOp("deleteCategory"))
  /\ UNCHANGED << transactions, budgets, categories, isLoading, auth, rTx, rBud, rCat, nextId >>

\* remote insert / update(...).eq('id', id) / delete().eq('id', id) on categories
ServerWriteCategory(i) ==
  /\ InFlight(i)
  /\ ops[i].pc \in {"insCat", "updCat", "delCat"} /\ ops[i].net = "sent"
  /\ \E ok \in BOOLEAN :
       IF ok
         THEN LET row == [id |-> nextId, name |-> ops[i].arg.name,
                          type |-> ops[i].arg.type, color |-> ops[i].arg.color]
                  Upd(r) == IF r.id = ops[i].arg.id
                              THEN Spread(r, ops[i].arg.fields) ELSE r
                  Keep(r) == r.id /= ops[i].arg.id
              IN  IF ops[i].pc = "insCat"
                    THEN /\ rCat' = Append(rCat, row)
                         /\ nextId' = nextId + 1
                         /\ ops' = [ops EXCEPT ![i] = Answered([@ EXCEPT !.resp = row], "ok")]
                    ELSE /\ rCat' = IF ops[i].pc = "updCat" THEN MapIdx(rCat, Upd)
                                                             ELSE SelectSeq(rCat, Keep)
                         /\ nextId' = nextId
                         /\ ops' = [ops EXCEPT ![i] = Answered(@, "ok")]
         ELSE /\ ops' = [ops EXCEPT ![i] = Answered(@, "err")]
              /\ UNCHANGED << rCat, nextId >>
  /\ UNCHANGED << transactions, budgets, categories, isLoading, auth, rTx, rBud >>

DeliverWriteCategoryCascade(i) ==
  /\ InFlight(i)
  /\ ops[i].pc \in {"insCat", "updCat", "delCat"} /\ ops[i].net \in {"ok", "err"}
  /\ IF (ops[i].pc = "insCat" /\ ~InsertThrown(ops[i]))
        \/ (ops[i].pc /= "insCat" /\ ~Thrown(ops[i]))
       THEN LET Upd(c) == IF c.id = ops[i].arg.id
                              THEN Spread(c, ops[i].arg.fields) ELSE c
                Keep(c) == c.id /= ops[i].arg.id
                Gone(b) == \A k \in DOMAIN categories :
                             categories[k].id = ops[i].arg.id
                               => b.category /= categories[k].name
            IN  /\ categories' =
                     IF ops[i].pc = "insCat"
                       THEN << toCategory(ops[i].resp) >> \o categories
                     ELSE IF ops[i].pc = "updCat" THEN MapIdx(categories, Upd)
                     ELSE SelectSeq(categories, Keep)
                /\ budgets' = IF ops[i].pc = "delCat" THEN SelectSeq(budgets, Gone)
                              ELSE budgets
                /\ ops' = [ops EXCEPT ![i] =
                             Finish([@ EXCEPT !.applied = TRUE], "RemoteConfirmed")]
       ELSE /\ ops' = [ops EXCEPT ![i] = Catch(@, "category")]
            /\ UNCHANGED << categories, budgets >>
  /\ UNCHANGED << transactions, isLoading, auth, rTx, rBud, rCat, nextId >>

\* addCategory / updateCategory / deleteCategory after the await
DeliverWriteCategory(i) ==
  /\ InFlight(i)
  /\ ops[i].pc \in {"insCat", "updCat", "delCat"} /\ ops[i].net \in {"ok", "err"}
  /\ IF (ops[i].pc = "insCat" /\ ~InsertThrown(ops[i]))
        \/ (ops[i].pc /= "insCat" /\ ~Thrown(ops[i]))
       THEN LET Upd(c) == IF c.id = ops[i].arg.id
                              THEN Spread(c, ops[i].arg.fields) ELSE c
                Keep(c) == c.id /= ops[i].arg.id
            IN  /\ categories' =
                     IF ops[i].pc = "insCat"
                       THEN << toCategory(ops[i].resp) >> \o categories
                     ELSE IF ops[i].pc = "updCat" THEN MapIdx(categories, Upd)
                     ELSE SelectSeq(categories, Keep)
                /\ ops' = [ops EXCEPT ![i] =
                             Finish([@ EXCEPT !.applied = TRUE], "RemoteConfirmed")]
       ELSE /\ ops' = [ops EXCEPT ![i] = Catch(@, "category")]
            /\ UNCHANGED categories
  /\ UNCHANGED << transactions, budgets, isLoading, auth, rTx, rBud, rCat, nextId >>

\* ----------------------------------------------------------- specification
OpIds == 1..(MaxOps + 1)

\* identifiers the remote store can have handed out
TxIds == 1..(MaxOps + 3)

\* identifiers a handler can be called with
Targets == TxIds \cup {UnknownId}

Server(i) ==
  \/ ServerSelect(i)
  \/ ServerInsertTransaction(i)
  \/ ServerBudgetWrite(i)
  \/ ServerWriteTransaction(i)
  \/ ServerRecalcWrite(i)
  \/ ServerInsertBudget(i)
  \/ ServerWriteBudget(i)
  \/ ServerWriteCategory(i)

Deliver(i) ==
  \/ DeliverRefresh(i)
  \/ DeliverAddTransaction(i)
  \/ DeliverBudgetWrite(i)
  \/ DeliverWriteTransaction(i)
  \/ DeliverRecalc(i)
  \/ DeliverAddBudget(i)
  \/ DeliverWriteBudget(i)
  \/ DeliverWriteCategory(i)

Next ==
  \/ Login
  \/ RefreshData
  \/ \E t \in TxInputs : AddTransaction(t)
  \/ \E id \in Targets : \E f \in TxUpdates : UpdateTransaction(id, f)
  \/ \E id \in Targets : DeleteTransaction(id)
  \/ \E b \in BudgetInputs : AddBudget(b)
  \/ \E id \in Targets : \E f \in BudgetUpdates : UpdateBudget(id, f)
  \/ \E id \in Targets : DeleteBudget(id)
  \/ \E c \in CategoryInputs : HandleAddNewCategory(c)
  \/ \E id \in Targets : \E f \in CategoryUpdates : UpdateCategory(id, f)
  \/ \E id \in Targets : DeleteCategory(id)
  \/ \E i \in OpIds : ServerSelect(i)
  \/ \E i \in OpIds : ServerInsertTransaction(i)
  \/ \E i \in OpIds : ServerBudgetWrite(i)
  \/ \E i \in OpIds : ServerWriteTransaction(i)
  \/ \E i \in OpIds : ServerRecalcWrite(i)
  \/ \E i \in OpIds : ServerInsertBudget(i)
  \/ \E i \in OpIds : ServerWriteBudget(i)
  \/ \E i \in OpIds : ServerWriteCategory(i)
  \/ \E i \in OpIds : DeliverRefresh(i)
  \/ \E i \in OpIds : DeliverAddTransaction(i)
  \/ \E i \in OpIds : DeliverBudgetWrite(i)
  \/ \E i \in OpIds : DeliverWriteTransaction(i)
  \/ \E i \in OpIds : DeliverRecalc(i)
  \/ \E i \in OpIds : DeliverAddBudget(i)
  \/ \E i \in OpIds : DeliverWriteBudget(i)
  \/ \E i \in OpIds : DeliverWriteCategory(i)

Spec == Init /\ [][Next]_vars


\* the sequential specification: a handler is invoked only when every
\* earlier one has returned (each call runs to completion)
SeqNext ==
  \/ Login
  \/ Quiescent /\ RefreshData
  \/ Quiescent /\ \E t \in TxInputs : AddTransaction(t)
  \/ Quiescent /\ \E id \in Targets : \E f \in TxUpdates : UpdateTransaction(id, f)
  \/ Quiescent /\ \E id \in Targets : DeleteTransaction(id)
  \/ Quiescent /\ \E b \in BudgetInputs : AddBudget(b)
  \/ Quiescent /\ \E id \in Targets : \E f \in BudgetUpdates : UpdateBudget(id, f)
  \/ Quiescent /\ \E id \in Targets : DeleteBudget(id)
  \/ Quiescent /\ \E c \in CategoryInputs : HandleAddNewCategory(c)
  \/ Quiescent /\ \E id \in Targets : \E f \in CategoryUpdates : UpdateCategory(id, f)
  \/ Quiescent /\ \E id \in Targets : DeleteCategory(id)
  \/ \E i \in OpIds : ServerSelect(i)
  \/ \E i \in OpIds : ServerInsertTransaction(i)
  \/ \E i \in OpIds : ServerBudgetWrite(i)
  \/ \E i \in OpIds : ServerWriteTransaction(i)
  \/ \E i \in OpIds : ServerRecalcWrite(i)
  \/ \E i \in OpIds : ServerInsertBudget(i)
  \/ \E i \in OpIds : ServerWriteBudget(i)
  \/ \E i \in OpIds : ServerWriteCategory(i)
  \/ \E i \in OpIds : DeliverRefresh(i)
  \/ \E i \in OpIds : DeliverAddTransaction(i)
  \/ \E i \in OpIds : DeliverBudgetWrite(i)
  \/ \E i \in OpIds : DeliverWriteTransaction(i)
  \/ \E i \in OpIds : DeliverRecalc(i)
  \/ \E i \in OpIds : DeliverAddBudget(i)
  \/ \E i \in OpIds : DeliverWriteBudget(i)
  \/ \E i \in OpIds : DeliverWriteCategory(i)

SeqSpec == Init /\ [][SeqNext]_vars

\* the fair specification: runs of at most MaxLiveOps invocations of the
\* transaction handlers, addBudget and refreshData
LiveCanInvoke ==
  Cardinality({i \in DOMAIN ops : ops[i].kind /= "effect"}) < MaxLiveOps

LiveNext ==
  \/ Login
  \/ LiveCanInvoke /\ RefreshData
  \/ LiveCanInvoke /\ \E t \in TxInputs : AddTransaction(t)
  \/ LiveCanInvoke /\ \E id \in Targets : \E f \in TxUpdates : UpdateTransaction(id, f)
  \/ LiveCanInvoke /\ \E id \in Targets : DeleteTransaction(id)
  \/ LiveCanInvoke /\ \E b \in BudgetInputs : AddBudget(b)
  \/ \E i \in OpIds : ServerSelect(i)
  \/ \E i \in OpIds : ServerInsertTransaction(i)
  \/ \E i \in OpIds : ServerBudgetWrite(i)
  \/ \E i \in OpIds : ServerWriteTransaction(i)
  \/ \E i \in OpIds : ServerRecalcWrite(i)
  \/ \E i \in OpIds : ServerInsertBudget(i)
  \/ \E i \in OpIds : DeliverRefresh(i)
  \/ \E i \in OpIds : DeliverAddTransaction(i)
  \/ \E i \in OpIds : DeliverBudgetWrite(i)
  \/ \E i \in OpIds : DeliverWriteTransaction(i)
  \/ \E i \in OpIds : DeliverRecalc(i)
  \/ \E i \in OpIds : DeliverAddBudget(i)

\* weak fairness: the remote store answers every request and the event loop
\* runs every continuation
LiveSpec ==
  /\ Init
  /\ [][LiveNext]_vars
  /\ \A i \in OpIds : WF_vars(Server(i)) /\ WF_vars(Deliver(i))

\* ------------------------------------------------------------------ logout
\* logout: the auth listener sets user to null, and the provider's effect
\* clears the three collections and the loading flag.  Handlers in flight
\* keep the closures of the render in which they were invoked.
Logout ==
  /\ auth
  /\ auth' = FALSE
  /\ transactions' = << >>
  /\ budgets' = << >>
  /\ categories' = << >>
  /\ isLoading' = FALSE
  /\ UNCHANGED << rTx, rBud, rCat, nextId, ops >>

\* one session per run: sign-in, refreshData and addTransaction, logout
SessionNext ==
  \/ ops = << >> /\ Login
  \/ Logout
  \/ RefreshData
  \/ \E t \in TxInputs : AddTransaction(t)
  \/ \E i \in OpIds : ServerSelect(i)
  \/ \E i \in OpIds : ServerInsertTransaction(i)
  \/ \E i \in OpIds : ServerBudgetWrite(i)
  \/ \E i \in OpIds : DeliverRefresh(i)
  \/ \E i \in OpIds : DeliverAddTransaction(i)
  \/ \E i \in OpIds : DeliverBudgetWrite(i)

SessionSpec == Init /\ [][SessionNext]_vars

\* ------------------------------------------------- calculateSpentAmount alone
\* transactions whose amounts are not integers: three expenses of the
\* category, one of a category that differs by letter case, one income
LedgerEntries ==
  << [id |-> 1, amount |-> Tenth,       category |-> Food,   date |-> 1, type |-> "expense"],
     [id |-> 2, amount |-> Fifth,       category |-> Food,   date |-> 2, type |-> "expense"],
     [id |-> 3, amount |-> ThreeTenths, category |-> Food,   date |-> 3, type |-> "expense"],
     [id |-> 4, amount |-> ThreeTenths, category |-> "food", date |-> 4, type |-> "expense"],
     [id |-> 5, amount |-> Fifth,       category |-> Food,   date |-> 5, type |-> "income"] >>

\* every arrangement of at most MaxLedger of them
Ledgers ==
  UNION { { [i \in 1..n |-> LedgerEntries[f[i]]] :
              f \in { g \in [1..n -> DOMAIN LedgerEntries] :
                        \A i, j \in 1..n : g[i] = g[j] => i = j } } :
          n \in 0..MaxLedger }

CalcCategories == {Food, "food", Rent}

CalcInit ==
  /\ transactions \in Ledgers
  /\ budgets = << >>
  /\ categories = << >>
  /\ isLoading = FALSE
  /\ auth = TRUE
  /\ rTx = << >>
  /\ rBud = << >>
  /\ rCat = << >>
  /\ nextId = 1
  /\ ops = << >>

\* a call calculateSpentAmount(category) in a render whose transactions are
\* the ledger: it reads its argument and the closure, and assigns nothing
Calculate(category) ==
  /\ Len(ops) < MaxCalls
  /\ ops' = Append(ops, [ kind     |-> "calculateSpentAmount",
                          txs      |-> transactions,
                          category |-> category,
                          result   |-> calculateSpentAmount64(transactions, category) ])
  /\ UNCHANGED <<transactions, budgets, categories, isLoading, auth,
                 rTx, rBud, rCat, nextId>>

CalcNext == \E category \in CalcCategories : Calculate(category)

CalcSpec == CalcInit /\ [][CalcNext]_vars

\* ------------------------------------------------------------- properties
\* every budget's cached spent is the calculator's result over the ledger
Consistent ==
  \A k \in 1..Len(budgets) :
     budgets[k].spent = calculateSpentAmount(transactions, budgets[k].category)

Mutations == {i \in DOMAIN ops : ops[i].kind \in TxKinds}

\* the remote write of the transaction itself, as the operation's log has it
TxWrite(o) == IF o.log = << >> THEN "none" ELSE o.log[1].res

HasFailedWrite(o, w) == \E k \in 1..Len(o.log) : o.log[k].w = w /\ o.log[k].res = "err"

\* the operation ran with no other handler in flight, every remote call
\* succeeded, and no handler was invoked after it
RanAlone(i) ==
  /\ i = Len(ops)
  /\ ops[i].pc = "done"
  /\ ops[i].alone
  /\ ops[i].phase = "RemoteConfirmed"

\* C1: once every transaction mutation and every refresh it triggered has
\* completed, every budget's spent equals computeSpent over the local ledger
\* (runs that invoke nothing but addTransaction, updateTransaction and
\* deleteTransaction after the initial load).
C1_EventualConsistency ==
  ( /\ Quiescent
    /\ \A i \in DOMAIN ops : ops[i].kind \in TxKinds \cup {"effect"} )
  => Consistent

\* C2: after one updateTransaction or deleteTransaction that ran alone with
\* all remote writes succeeding, every budget's spent is the sum of the
\* matching expenses of the ledger as it is after the mutation.
C2_FullRecompute ==
  \A i \in DOMAIN ops :
     (ops[i].kind \in {"updateTransaction", "deleteTransaction"} /\ RanAlone(i))
     => Consistent

\* the run so far: the initial load, then expense addTransaction calls, each
\* run to completion alone with successful remote writes
OnlyExpenseAdds ==
  /\ ops /= << >>
  /\ ops[1].kind = "effect" /\ ops[1].pc = "done"
  /\ \A i \in 2..Len(ops) :
       /\ ops[i].kind = "addTransaction"
       /\ ops[i].arg.type = "expense"
       /\ ops[i].pc = "done" /\ ops[i].alone /\ ops[i].phase = "RemoteConfirmed"

C7_AddBudgetInitialSpent ==
  \A i \in DOMAIN ops :
     (ops[i].kind = "addBudget" /\ RanAlone(i))
     => /\ budgets /= << >>
        /\ budgets[1].id = ops[i].resp.id
        /\ budgets[1].spent = calculateSpentAmount(transactions, ops[i].arg.category)

C7_Witness ==
  \E i \in DOMAIN ops :
     /\ ops[i].kind = "addBudget" /\ RanAlone(i)
     /\ budgets[1].id = ops[i].resp.id
     /\ budgets[1].spent = 80

\* C8: at the moment addBudget puts the new budget into the local Budget
\* Store, its spent equals computeSpent over the local ledger of that moment.
C8_NeverCreatedStale ==
  [][ \A i \in DOMAIN ops :
        ( /\ ops[i].kind = "addBudget" /\ ops[i].pc = "insert"
          /\ ops'[i].pc = "done" /\ ops'[i].applied )
        => budgets'[1].spent = calculateSpentAmount(transactions', budgets'[1].category)
    ]_vars

C10_NoRetry ==
  \A i \in Mutations :
     LET log == ops[i].log
         Count(w) == Cardinality({k \in 1..Len(log) : log[k].w = w})
     IN  /\ \A k \in 1..Len(log) : log[k].res = "err" => k = Len(log)
         /\ Count("tx") <= 1
         /\ Count("inc") <= 1
         /\ Count("tx") + Count("inc") + Count("recalc") = Len(log)
         /\ ops[i].pc = "recalc" =>
              /\ Count("recalc") = Len(ops[i].snapBud) - Len(ops[i].todo) + 1
              /\ \A k \in 1..Count("recalc") : log[k + 1].key = ops[i].snapBud[k].id

C10_Witness ==
  \E i \in Mutations :
     /\ ops[i].pc = "selTx"
     /\ HasFailedWrite(ops[i], "inc")
     /\ Len(ops[i].log) = 2

\* a step in which handler i runs its continuation after an answered call
Continues(i) == i \in DOMAIN ops /\ ops[i].net \in {"ok", "err"} /\ ops'[i].pc /= ops[i].pc

\* C11: when the remote write of an adjusted budget spent fails (incremental
\* write after an add, or a write of the full recompute), the step that
\* handles the failure leaves the local budgets as adjusted; the local
\* budgets change only in the continuation of a successful refresh or of a
\* successful remote write of a mutation.
C11_NoRollback ==
  [][ /\ \A i \in DOMAIN ops :
           (Continues(i) /\ ops[i].pc \in {"budWrite", "recalc"} /\ ops[i].net = "err")
           => budgets' = budgets
      /\ budgets' /= budgets =>
           \E i \in DOMAIN ops :
              /\ Continues(i) /\ ops[i].net = "ok"
              /\ ops[i].pc \in {"selCat", "insert", "update", "delete", "updBud", "delBud"}
    ]_vars

C11_Witness ==
  \E i \in Mutations :
     /\ HasFailedWrite(ops[i], "inc") /\ ops[i].refreshed
     /\ budgets /= << >>
     /\ budgets[1].spent = 80
     /\ rBud[1].spent = 50

\* a step in which the user interface calls a handler of the context
Invokes == Len(ops') = Len(ops) + 1 /\ ops'[Len(ops')].kind /= "effect"

\* C12: with no authenticated user, a call of any handler (add / update /
\* delete of a transaction, a budget or a category, and refreshData) returns
\* at once: it issues no remote call, and the local transactions, budgets and
\* categories and the remote tables are unchanged.
C12_UnauthenticatedNoOp ==
  [][ (~auth /\ Invokes) =>
        LET o == ops'[Len(ops')]
        IN  /\ o.pc = "done" /\ o.phase = "NoOp"
            /\ o.net = "none" /\ o.log = << >>
            /\ SubSeq(ops', 1, Len(ops)) = ops
            /\ UNCHANGED << transactions, budgets, categories, rTx, rBud, rCat, nextId >>
    ]_vars

C12_Witness ==
  /\ ~auth
  /\ transactions = << >> /\ budgets = << >> /\ categories = << >>
  /\ \E i, j \in DOMAIN ops :
        /\ ops[i].kind = "deleteCategory" /\ ops[i].phase = "NoOp"
        /\ ops[j].kind = "addTransaction" /\ ops[j].phase = "NoOp"

\* the identifier handler o was called with was in no row of the local store
NotFound(o) ==
  \/ /\ o.kind \in {"updateTransaction", "deleteTransaction"}
     /\ \A k \in 1..Len(o.snapTx) : o.snapTx[k].id /= o.arg.id
  \/ /\ o.kind \in {"updateBudget", "deleteBudget"}
     /\ \A k \in 1..Len(o.snapBud) : o.snapBud[k].id /= o.arg.id

\* C13: no step of an update or delete (of a transaction or a budget) that
\* was called with an identifier absent from the local store changes the
\* local transactions, budgets or categories.
C13_NotFoundNoOp ==
  [][ \A i \in DOMAIN ops :
        (Continues(i) /\ NotFound(ops[i]))
        => UNCHANGED << transactions, budgets, categories >>
    ]_vars

\* the ways a handler returns: at its guard, after its last statement, or
\* from a catch block that reports the failure
Returned ==
  {"NoOp", "RemoteConfirmed", "Refreshed", "Reconciled", "RemoteFailed", "RefreshFailed"}

\* C14: whatever the remote calls answer, a handler that has finished has
\* returned normally: an error thrown after a failed remote call is handled
\* in a catch block of the handler and never leaves it.
C14_NoErrorEscapes ==
  \A i \in DOMAIN ops :
     /\ ops[i].pc = "done" => ops[i].phase \in Returned
     /\ (ops[i].pc = "done" /\ ops[i].failed /= "none")
          => ops[i].phase \in {"RemoteFailed", "Reconciled", "RefreshFailed"}

C14_Witness ==
  \E i, j \in DOMAIN ops :
     /\ ops[i].pc = "done" /\ ops[i].phase = "RemoteFailed" /\ ops[i].failed = "category"
     /\ ops[j].pc = "done" /\ ops[j].phase = "RefreshFailed" /\ ops[j].failed = "inc"

\* --------------------------------------------------------------------- C15
\* what one transaction adds to the total of a category: its amount if it is
\* an expense of exactly that category, nothing otherwise
Contribution(t, category) ==
  IF t.type = "expense" /\ t.category = category THEN t.amount ELSE Zero64

RECURSIVE TotalUpTo(_, _, _)
TotalUpTo(ledger, category, k) ==
  IF k = 0 THEN Zero64
  ELSE Binary64Add(TotalUpTo(ledger, category, k - 1),
                   Contribution(ledger[k], category))

\* C15: the result of calculateSpentAmount(category) is the sum, taken in the
\* order of the ledger, of the amounts of the transactions that are expenses
\* of exactly that category (income and other categories, also those that
\* differ by letter case only, add nothing), and 0 when there is none.
C15_SumOfMatchingExpenses ==
  \A i \in DOMAIN ops :
    /\ ops[i].result = TotalUpTo(ops[i].txs, ops[i].category, Len(ops[i].txs))
    /\ (\A k \in DOMAIN ops[i].txs :
          ops[i].txs[k].type /= "expense" \/ ops[i].txs[k].category /= ops[i].category)
        => ops[i].result = Zero64

\* a ledger with an expense of the category, one of the category in another
\* letter case and an income: the categories give different totals, and a
\* call for a category without transactions gives 0
C15_Witness ==
  /\ Len(transactions) = 3
  /\ {transactions[k].id : k \in 1..3} = {1, 4, 5}
  /\ Len(ops) = 2
  /\ ops[1].category = Food /\ ops[1].result = Tenth
  /\ ops[2].category = Rent /\ ops[2].result = Zero64

\* --------------------------------------------------------------------- C16
Arrangements(s) ==
  { [i \in DOMAIN s |-> s[f[i]]] :
      f \in { g \in [DOMAIN s -> DOMAIN s] :
                \A i, j \in DOMAIN s : g[i] = g[j] => i = j } }

\* C16: calculateSpentAmount gives the same result for every arrangement of
\* the ledger it was given, and for every call with the same category.
C16_OrderIndependent ==
  \A i \in DOMAIN ops :
    /\ \A p \in Arrangements(ops[i].txs) :
         calculateSpentAmount64(p, ops[i].category) = ops[i].result
    /\ \A j \in DOMAIN ops :
         ops[j].category = ops[i].category => ops[j].result = ops[i].result

\* --------------------------------------------------------------------- C17
\* addTransaction continues after a successful insert
AddConfirmed(i) ==
  /\ Continues(i)
  /\ ops[i].kind = "addTransaction" /\ ops[i].pc = "insert" /\ ops[i].net = "ok"

\* C17: the step in which addTransaction continues after a successful insert
\* of an expense adds the amount to the spent of every budget of the
\* transaction's category and leaves every other budget as it was; after a
\* successful insert of an income it leaves every budget as it was, returns,
\* and has issued no write to the remote budgets.
C17_IncrementalTouchesMatching ==
  [][ \A i \in DOMAIN ops : AddConfirmed(i) =>
        LET t == ops[i].arg
        IN  IF t.type = "expense"
              THEN /\ Len(budgets') = Len(budgets)
                   /\ \A k \in DOMAIN budgets :
                        budgets'[k] =
                          IF budgets[k].category = t.category
                            THEN [budgets[k] EXCEPT !.spent = @ + t.amount]
                            ELSE budgets[k]
              ELSE /\ budgets' = budgets
                   /\ rBud' = rBud
                   /\ ops'[i].pc = "done"
                   /\ \A k \in DOMAIN ops'[i].log : ops'[i].log[k].w = "tx" ]_vars

\* an expense of Food was added while the budgets were one of Rent and one
\* of Food: Food has the amount added, Rent is as it was
C17_Witness ==
  /\ \E i \in DOMAIN ops :
       /\ ops[i].kind = "addTransaction" /\ ops[i].applied
       /\ ops[i].arg.type = "expense" /\ ops[i].arg.category = Food
       /\ ops[i].phase = "RemoteConfirmed"
  /\ Len(budgets) = 2
  /\ budgets[1].category = Rent /\ budgets[1].spent = 0
  /\ budgets[2].category = Food /\ budgets[2].spent = 80
  /\ rBud[1].category = Food /\ rBud[1].spent = 80

\* --------------------------------------------------------------------- C18
\* refreshData continues after its three selects have succeeded
RefreshCompletes(i) ==
  /\ Continues(i)
  /\ ops[i].pc \in {"selTx", "selBud", "selCat"} /\ ops[i].net = "ok"

\* C18: the step in which refreshData completes successfully sets the local
\* transactions, budgets and categories to the rows its selects returned,
\* whatever they held before; if no other handler ran meanwhile these are
\* the rows of the remote tables, transactions latest first.
C18_RefreshOverwrites ==
  [][ \A i \in DOMAIN ops : RefreshCompletes(i) =>
        /\ transactions' = MapIdx(ops[i].fTx, toTransaction)
        /\ budgets' = MapIdx(ops[i].fBud, toBudget)
        /\ categories' = MapIdx(ops[i].fCat, toCategory)
        /\ ops[i].alone =>
             /\ transactions' = MapIdx(OrderByDateDesc(rTx), toTransaction)
             /\ budgets' = MapIdx(rBud, toBudget)
             /\ categories' = MapIdx(rCat, toCategory) ]_vars

\* the refresh that followed a failed budget write has completed: the local
\* spent, 80 before it, is the remote 50 again, and the transaction added
\* is listed before the older one
C18_Witness ==
  /\ \E i \in Mutations :
       /\ ops[i].pc = "done" /\ ops[i].phase = "Reconciled"
       /\ HasFailedWrite(ops[i], "inc")
  /\ Len(budgets) = 1 /\ budgets[1].spent = 50 /\ rBud[1].spent = 50
  /\ Len(transactions) = 2 /\ transactions[1].date > transactions[2].date
  /\ Len(categories) = 1

\* --------------------------------------------------------------------- C19
\* C19: no two transactions of the local ledger have the same id.
C19_UniqueTransactionIds ==
  \A k, m \in DOMAIN transactions :
    transactions[k].id = transactions[m].id => k = m

\* --------------------------------------------------------------------- C20
\* C20: the spent of every budget, local and remote, is at least 0 (every
\* amount of a transaction being above 0).
C20_SpentNonNegative ==
  /\ \A k \in DOMAIN transactions : transactions[k].amount > 0
  /\ \A k \in DOMAIN budgets : budgets[k].spent >= 0
  /\ \A k \in DOMAIN rBud : rBud[k].spent >= 0

\* the boundary: a budget of Rent was added while the ledger has no expense
\* of Rent, and a recalculation after updateTransaction has written the
\* spent of both budgets: 0 for Rent, locally and remotely
C20_Witness ==
  /\ \E i \in DOMAIN ops :
       /\ ops[i].kind = "updateTransaction" /\ ops[i].pc = "done"
       /\ ops[i].phase = "RemoteConfirmed" /\ ops[i].applied
  /\ Len(budgets) = 2
  /\ budgets[1].category = Rent /\ budgets[1].spent = 0
  /\ budgets[2].category = Food /\ budgets[2].spent > 0
  /\ Len(rBud) = 2 /\ rBud[2].category = Rent /\ rBud[2].spent = 0

\* --------------------------------------------------------------------- C21
\* updateTransaction continues after a successful remote update of a
\* transaction that is in the ledger
UpdateConfirmed(i) ==
  /\ Continues(i)
  /\ ops[i].kind = "updateTransaction" /\ ops[i].pc = "update" /\ ops[i].net = "ok"
  /\ ops[i].arg.id \in LocalIds

\* C21: the step in which updateTransaction(id, f) continues after a
\* successful remote update leaves the ledger's length and order as they
\* were; the transaction with that id has the value of f for every field f
\* supplies and its previous value for every other field, and every other
\* transaction is as it was.
C21_UpdateReplacesSuppliedFields ==
  [][ \A i \in DOMAIN ops : UpdateConfirmed(i) =>
        LET id == ops[i].arg.id
            f  == ops[i].arg.fields
        IN  /\ Len(transactions') = Len(transactions)
            /\ \A k \in DOMAIN transactions :
                 /\ DOMAIN transactions'[k] = DOMAIN transactions[k]
                 /\ \A field \in DOMAIN transactions[k] :
                      transactions'[k][field] =
                        IF transactions[k].id = id /\ field \in DOMAIN f
                          THEN f[field] ELSE transactions[k][field] ]_vars

\* the amount of the older of two transactions was updated to 20: its other
\* fields and the transaction before it are as they were
C21_Witness ==
  /\ \E i \in DOMAIN ops :
       /\ ops[i].kind = "updateTransaction" /\ ops[i].applied
       /\ ops[i].arg = [id |-> 1, fields |-> [amount |-> 20]]
  /\ Len(transactions) = 2
  /\ transactions[1] = [id |-> 4, amount |-> 30, category |-> Food, date |-> 3,
                        type |-> "expense"]
  /\ transactions[2] = [id |-> 1, amount |-> 20, category |-> Food, date |-> 2,
                        type |-> "expense"]

\* --------------------------------------------------------------------- C22
\* C22: the step in which addTransaction continues after a successful insert
\* puts the inserted transaction, with the fields submitted, in the first
\* place of the ledger and moves every transaction of the ledger one place
\* down, whatever the dates are.
C22_AddPrepends ==
  [][ \A i \in DOMAIN ops : AddConfirmed(i) =>
        /\ Len(transactions') = Len(transactions) + 1
        /\ transactions'[1].id = ops[i].resp.id
        /\ \A field \in DOMAIN ops[i].arg :
             transactions'[1][field] = ops[i].arg[field]
        /\ \A k \in DOMAIN transactions :
             transactions'[k + 1] = transactions[k] ]_vars

\* an income dated day 1 was added to a ledger holding a transaction of
\* day 2: the older transaction is the first of the list
C22_Witness ==
  /\ \E i \in DOMAIN ops :
       /\ ops[i].kind = "addTransaction" /\ ops[i].applied /\ ops[i].pc = "done"
       /\ ops[i].arg.type = "income"
  /\ Len(transactions) = 2
  /\ transactions[1].type = "income" /\ transactions[1].date = 1
  /\ transactions[2].id = 1 /\ transactions[2].date = 2

\* --------------------------------------------------------------------- C23
\* a step of the handler i: its remote call is processed or it continues
Steps(i) ==
  /\ i \in DOMAIN ops
  /\ ops'[i].pc /= ops[i].pc \/ ops'[i].net /= ops[i].net

\* C23: no step of deleteCategory, from its invocation to its return and
\* whether its remote delete succeeds or fails, changes the local
\* transactions or budgets or the remote transactions or budgets, and the
\* only remote write it issues is the one to categories.
C23_DeleteCategoryNoCascade ==
  [][ /\ (Invokes /\ ops'[Len(ops')].kind = "deleteCategory")
          => UNCHANGED << transactions, budgets, rTx, rBud >>
      /\ \A i \in DOMAIN ops : (Steps(i) /\ ops[i].kind = "deleteCategory") =>
            /\ UNCHANGED << transactions, budgets, rTx, rBud >>
            /\ \A k \in DOMAIN ops'[i].log : ops'[i].log[k].w = "category" ]_vars

\* the category Food was deleted, locally and remotely, while a transaction
\* and a budget of Food are in the stores
C23_Witness ==
  /\ \E i \in DOMAIN ops :
       /\ ops[i].kind = "deleteCategory" /\ ops[i].phase = "RemoteConfirmed"
       /\ ops[i].arg.id = 3
  /\ categories = << >> /\ rCat = << >>
  /\ \E k \in DOMAIN transactions : transactions[k].category = Food
  /\ \E k \in DOMAIN budgets : budgets[k].category = Food

\* --------------------------------------------------------------------- C24
\* C24: no two categories of the local store have names that are equal
\* ignoring case.
C24_UniqueCategoryNames ==
  \A k, m \in DOMAIN categories :
    ToLower(categories[k].name) = ToLower(categories[m].name) => k = m

\* --------------------------------------------------------------------- C25
\* a successful addTransaction of an expense that has returned and that ran
\* while another handler was in flight
OverlappedAdd(i) ==
  /\ ops[i].kind = "addTransaction"
  /\ ops[i].pc = "done" /\ ops[i].phase = "RemoteConfirmed" /\ ~ops[i].alone
  /\ ops[i].arg.type = "expense"

\* C25: when two addTransaction calls of expenses of one category overlapped,
\* every remote write succeeded and every handler has returned (all others
\* having run alone), the spent of each budget of the category is the same
\* remotely and locally, and is the calculator's result over the ledger.
C25_OverlappingAddsKeepRemote ==
  \A i, j \in DOMAIN ops :
    ( /\ i < j
      /\ OverlappedAdd(i) /\ OverlappedAdd(j)
      /\ ops[i].arg.category = ops[j].arg.category
      /\ \A m \in DOMAIN ops :
           /\ ops[m].pc = "done" /\ ops[m].failed = "none"
           /\ ops[m].phase \in {"RemoteConfirmed", "Refreshed"}
           /\ m \notin {i, j} => ops[m].alone )
    => \A k \in DOMAIN budgets :
         budgets[k].category = ops[i].arg.category =>
           /\ budgets[k].spent = calculateSpentAmount(transactions, budgets[k].category)
           /\ \A r \in DOMAIN rBud :
                rBud[r].id = budgets[k].id => rBud[r].spent = budgets[k].spent

\* --------------------------------------------------------------------- C26
\* a transaction handler continues after its remote insert, update or delete
\* of the transaction has failed
TransactionWriteFailed(i) ==
  /\ Continues(i)
  /\ ops[i].kind \in TxKinds
  /\ ops[i].pc \in {"insert", "update", "delete"} /\ ops[i].net = "err"

\* C26: the step in which a transaction handler continues after its remote
\* write of the transaction failed changes no local collection and no remote
\* budget; the handler returns having issued no other write; and if no other
\* handler ran meanwhile, transactions and budgets are those of the render
\* in which it was called.
C26_FailedTransactionWriteNoChange ==
  [][ \A i \in DOMAIN ops : TransactionWriteFailed(i) =>
        /\ UNCHANGED << transactions, budgets, categories, rTx, rBud >>
        /\ ops'[i].pc = "done"
        /\ Len(ops'[i].log) = 1 /\ ops'[i].log[1].w = "tx"
        /\ ops[i].alone =>
             transactions' = ops[i].snapTx /\ budgets' = ops[i].snapBud ]_vars

\* an update and a delete of the loaded transaction have both failed: the
\* stores are as loaded
C26_Witness ==
  /\ \E i, j \in DOMAIN ops :
       /\ ops[i].kind = "updateTransaction" /\ ops[i].failed = "tx" /\ ops[i].pc = "done"
       /\ ops[i].arg.id = 1
       /\ ops[j].kind = "deleteTransaction" /\ ops[j].failed = "tx" /\ ops[j].pc = "done"
       /\ ops[j].arg.id = 1
  /\ transactions = MapIdx(SeedTx, toTransaction)
  /\ budgets = MapIdx(SeedBudgets, toBudget)
  /\ rTx = SeedTx /\ rBud = SeedBudgets

\* --------------------------------------------------------------------- C27
\* updateTransaction or deleteTransaction continues after its successful
\* remote write: recalculateBudgets replaces the local budgets
Recomputes(i) ==
  /\ Continues(i)
  /\ ops[i].pc \in {"update", "delete"} /\ ops[i].net = "ok"

\* C27: the step in which a recompute replaces the local budgets keeps their
\* number and order and the id, category, limit and period of each.
C27_RecomputeChangesOnlySpent ==
  [][ \A i \in DOMAIN ops : Recomputes(i) =>
        /\ Len(budgets') = Len(budgets)
        /\ \A k \in DOMAIN budgets :
             /\ budgets'[k].id = budgets[k].id
             /\ budgets'[k].category = budgets[k].category
             /\ budgets'[k].limit = budgets[k].limit
             /\ budgets'[k].period = budgets[k].period ]_vars

\* --------------------------------------------------------------------- C28
\* a deleteTransaction of the id has succeeded
Deleted(id) ==
  \E j \in DOMAIN ops :
    ops[j].kind = "deleteTransaction" /\ ops[j].applied /\ ops[j].arg.id = id

\* C28: the transaction of an addTransaction that has completed successfully
\* is in the local ledger unless a deleteTransaction of its id has succeeded.
C28_ConfirmedAddStaysVisible ==
  \A i \in DOMAIN ops :
    (ops[i].kind = "addTransaction" /\ ops[i].pc = "done" /\ ops[i].applied)
      => (ops[i].resp.id \in LocalIds \/ Deleted(ops[i].resp.id))

\* --------------------------------------------------------------------- C29
\* C29: while no user is authenticated the local transactions, budgets and
\* categories are empty.
C29_NoDataWithoutSession ==
  ~auth => transactions = << >> /\ budgets = << >> /\ categories = << >>

\* --------------------------------------------------------------------- C30
\* a step of a refresh: one of its selects is answered, or it finishes
RefreshSteps(i) ==
  /\ Steps(i)
  /\ ops[i].pc \in {"selTx", "selBud", "selCat"}

\* C30: a refresh changes no local collection while its selects are being
\* answered; when it finishes after a failed select (the first, the second
\* or the third) the three collections are as they were, when it finishes
\* after three successful selects each of the three is replaced by the rows
\* returned; in both cases the loading flag is false afterwards.
C30_RefreshAllOrNothing ==
  [][ \A i \in DOMAIN ops : RefreshSteps(i) =>
        IF ops[i].net = "sent"
          THEN UNCHANGED << transactions, budgets, categories >>
        ELSE /\ ops'[i].pc = "done"
             /\ isLoading' = FALSE
             /\ IF ops[i].net = "err"
                  THEN UNCHANGED << transactions, budgets, categories >>
                  ELSE /\ ops[i].pc = "selCat"
                       /\ transactions' = MapIdx(ops[i].fTx, toTransaction)
                       /\ budgets' = MapIdx(ops[i].fBud, toBudget)
                       /\ categories' = MapIdx(ops[i].fCat, toCategory) ]_vars

\* a refresh has finished after a failed select while the local budget
\* differed from the remote row: the local collections are as they were
C30_Witness ==
  /\ \E i \in DOMAIN ops :
       /\ ops[i].pc = "done" /\ ops[i].phase = "RefreshFailed"
       /\ ops[i].kind = "addTransaction"
  /\ ~isLoading
  /\ Len(transactions) = 2
  /\ Len(budgets) = 1 /\ budgets[1].spent = 80 /\ rBud[1].spent = 50
  /\ Len(categories) = 1

\* --------------------------------------------------------------------- C31
\* updateBudget continues after its remote update has been answered
UpdateBudgetContinues(i) ==
  /\ Continues(i)
  /\ ops[i].kind = "updateBudget" /\ ops[i].pc = "updBud"

\* C31: the step in which updateBudget(id, f) continues after a successful
\* remote update keeps the number and order of the budgets, gives the budget
\* with that id the value of f for every field f supplies and leaves its
\* other fields (spent among them) and every other budget as they were;
\* after a failed remote update the budgets are as they were; in both cases
\* the transactions and the categories are as they were.
C31_UpdateBudgetFrame ==
  [][ \A i \in DOMAIN ops : UpdateBudgetContinues(i) =>
        LET id == ops[i].arg.id
            f  == ops[i].arg.fields
        IN  /\ UNCHANGED << transactions, categories >>
            /\ IF ops[i].net = "err" THEN budgets' = budgets
               ELSE /\ Len(budgets') = Len(budgets)
                    /\ \A k \in DOMAIN budgets :
                         /\ DOMAIN budgets'[k] = DOMAIN budgets[k]
                         /\ \A field \in DOMAIN budgets[k] :
                              budgets'[k][field] =
                                IF budgets[k].id = id /\ field \in DOMAIN f
                                  THEN f[field] ELSE budgets[k][field] ]_vars

\* the Food budget (spent 50) was updated to category Rent and limit 300
\* next to a budget added before: it keeps its spent, the other is as added
C31_Witness ==
  /\ \E i \in DOMAIN ops :
       /\ ops[i].kind = "updateBudget" /\ ops[i].applied /\ ops[i].arg.id = 2
  /\ Len(budgets) = 2
  /\ budgets[1] = [id |-> 4, category |-> Rent, limit |-> 100, spent |-> 0,
                   period |-> "monthly"]
  /\ budgets[2] = [id |-> 2, category |-> Rent, limit |-> 300, spent |-> 50,
                   period |-> "monthly"]

\* --------------------------------------------------------------------- C32
\* the budget writes a recompute has issued so far
RecalcWrites(o) ==
  LET IsRecalc(e) == e.w = "recalc"
  IN  SelectSeq(o.log, IsRecalc)

\* a step of the recompute's loop: a budget write is answered, or the
\* recompute finishes
RecalcSteps(i) ==
  /\ i \in DOMAIN ops
  /\ ops[i].pc = "recalc"
  /\ ops'[i].pc /= ops[i].pc \/ ops'[i].net /= ops[i].net \/ ops'[i].log /= ops[i].log

\* C32: the step in which updateTransaction or deleteTransaction continues
\* after its successful remote write replaces the spent of every local
\* budget and issues the write of the first budget only, no remote budget
\* having been written yet; each further step of the recompute leaves the
\* local budgets alone; a write that succeeds sets the spent of that one
\* remote row and is followed by the write of the next budget in the order
\* of the Budget Store, if there is one; a write that fails changes no
\* remote row and is followed by no further write.
C32_RecomputePersistenceOrder ==
  [][ \A i \in DOMAIN ops :
        /\ Recomputes(i) =>
             /\ rBud' = rBud
             /\ Len(budgets') = Len(ops[i].snapBud)
             /\ \A k \in DOMAIN budgets' :
                  budgets'[k].spent =
                    calculateSpentAmount(ops[i].snapTx, budgets'[k].category)
             /\ RecalcWrites(ops'[i]) =
                  IF budgets' = << >> THEN << >>
                  ELSE << [w |-> "recalc", key |-> budgets'[1].id, res |-> "sent"] >>
        /\ RecalcSteps(i) =>
             LET before == RecalcWrites(ops[i])
                 after  == RecalcWrites(ops'[i])
                 n      == Len(before)
             IN  /\ budgets' = budgets
                 /\ before[n].key = budgets[n].id
                 /\ IF ops[i].net /= "sent"
                      THEN /\ rBud' = rBud /\ after = before
                           /\ ops'[i].pc = "done"
                    ELSE IF after[n].res = "ok"
                      THEN /\ \A r \in DOMAIN rBud :
                                rBud'[r] = IF rBud[r].id = budgets[n].id
                                             THEN [rBud[r] EXCEPT !.spent = budgets[n].spent]
                                             ELSE rBud[r]
                           /\ IF n < Len(budgets)
                                THEN /\ Len(after) = n + 1
                                     /\ after[n + 1] = [w |-> "recalc",
                                                        key |-> budgets[n + 1].id,
                                                        res |-> "sent"]
                                ELSE Len(after) = n
                    ELSE /\ after[n].res = "err"
                         /\ rBud' = rBud
                         /\ Len(after) = n
                         /\ ops'[i].net = "err" ]_vars

\* a recompute over two budgets has returned after the write of the first
\* succeeded and the write of the second failed
C32_Witness ==
  /\ Len(budgets) = 2
  /\ \E i \in DOMAIN ops :
       /\ ops[i].kind \in {"updateTransaction", "deleteTransaction"}
       /\ ops[i].pc = "done" /\ ops[i].failed = "recalc"
       /\ RecalcWrites(ops[i]) =
            << [w |-> "recalc", key |-> budgets[1].id, res |-> "ok"],
               [w |-> "recalc", key |-> budgets[2].id, res |-> "err"] >>

\* --------------------------------------------------------------------- C33
\* a refresh is between its start and its completion
Refreshing(i) == ops[i].pc \in {"selTx", "selBud", "selCat"}

\* C33: while a user is authenticated the loading flag is true exactly when
\* some refresh is between its start and its completion.
C33_LoadingTracksRefresh ==
  auth => (isLoading <=> \E i \in DOMAIN ops : Refreshing(i))
====
